---------------------------- MODULE Spec2Model ----------------------------
(***************************************************************************)
(* Model of the cluster synchronisation engine.  The repository holds      *)
(* three programs that replicate a source index into a target index:      *)
(*                                                                         *)
(*   "restart"      src/sync-clusters.js, lines 1-218                      *)
(*   "throttled"    src/unnamed/part_000                                   *)
(*   "differential" src/sync-clusters.js, lines 220-429                    *)
(*                                                                         *)
(* Each has its own syncData and its own scheduler.  The variable variant  *)
(* says which program runs; it is fixed by Init.  A pass is one invocation *)
(* of syncData; its local variables are functions of the slot the          *)
(* invocation lives in.  Every await of the code is one action: the        *)
(* action takes the collaborator's answer (a result or a thrown error)     *)
(* and runs the code up to the next await.                                 *)
(***************************************************************************)
EXTENDS Integers, Sequences, FiniteSets

(* ------------------------------ bounds -------------------------------- *)

\* Largest number of documents in the source index.
MaxDocs == 3

\* Page size of the scroll cursor (batchSize: 200, 200 and 100 in the code).
PageSize == 2

\* Pending restart timers the model keeps track of (restart variant).
MaxTimers == 1

\* Passes started by restart timers that run at the same time (restart
\* variant): the code sets no limit, every pass that completes starting
\* another chain of them.  A timer that is due with this many of them running
\* fires once one of them has settled.
MaxTimerPasses == 1

\* Turns of the differential batch loop whose counters are kept; later turns
\* run with the counters frozen.
MaxBatches == 3

(* ------------------------- program constants -------------------------- *)

BASE_DELAY == 10000

MAX_DELAY == 60000

MAX_RETRIES == 5

\* let retries = 3 of the restart variant.
RESTART_RETRIES == 3

\* The unit of the restart variant's linear retry wait, (3 - retries) * 1000.
RESTART_WAIT_UNIT == 1000

\* The slot of the pass the scheduler loop awaits ("main"), and the slots of
\* the passes started by the restart timers of the restart variant.
TimerNames == <<"timer", "timer2">>

TimerSlots == {TimerNames[i] : i \in 1 .. MaxTimerPasses}

Slots == {"main"} \cup TimerSlots

Variants == {"restart", "throttled", "differential"}

(* ------------------------------ documents ----------------------------- *)

\* The jsonPayload field of a document: text that parses to value v (v > 0),
\* text that does not parse (v = 0), the empty text (v = -1), or an already
\* structured value.
JsonText == [t |-> "string", v |-> 1]

Garbled == [t |-> "string", v |-> 0]

\* The empty string: a string, and falsy.
EmptyText == [t |-> "string", v |-> -1]

Structured == [t |-> "object", v |-> 1]

Absent == [t |-> "absent", v |-> 0]

Payloads == {JsonText, Garbled, EmptyText, Structured}

DocIds == 1 .. MaxDocs

RECURSIVE SeqsUpTo(_)
SeqsUpTo(n) ==
  IF n = 0 THEN {<<>>}
  ELSE LET shorter == SeqsUpTo(n - 1)
       IN shorter \cup {Append(q, p) : q \in {x \in shorter : Len(x) = n - 1}, p \in Payloads}

\* The source indexes the model starts from: document i has identifier i.
\* A payload already held as a structure and a payload of decodable text give
\* the same indexed document, so only the second document ranges over both;
\* the others hold text, decodable or not.  The pipeline leaves the empty
\* text alone as it does a structure, so only the first document ranges over
\* it.
Sources ==
  {q \in SeqsUpTo(MaxDocs) :
     \A i \in DOMAIN q : /\ q[i] = Structured => i = 2
                         /\ q[i] = EmptyText => i = 1}

Min(a, b) == IF a < b THEN a ELSE b

\* JSON.parse of a payload text: it throws on text that is not JSON, the
\* empty text included.
ParseThrows(p) == p.t = "string" /\ p.v <= 0

\* Boolean(value) of a payload: of the payloads only the empty string is falsy.
Truthy(p) == p # EmptyText

JSONparse(p) == [t |-> "object", v |-> p.v]

\* The guard `source.jsonPayload && typeof source.jsonPayload === 'string'`.
IsPayloadText(p) == Truthy(p) /\ p.t = "string"

\* The body of the flatMap callback: the source written for one document.
\* A payload that does not parse is left as the text it was.
TransformKeep(p) ==
  IF IsPayloadText(p) /\ ~ParseThrows(p) THEN JSONparse(p) ELSE p

\* The number of documents of a page whose payload does not parse.
RECURSIVE ParseFailures(_, _)
ParseFailures(src, ids) ==
  IF ids = <<>> THEN 0
  ELSE (IF IsPayloadText(src[Head(ids)]) /\ ParseThrows(src[Head(ids)]) THEN 1 ELSE 0)
       + ParseFailures(src, Tail(ids))

\* The page a scroll cursor yields after `pos` documents were delivered.
Page(src, pos) ==
  [i \in 1 .. Min(PageSize, Len(src) - pos) |-> pos + i]

Range(q) == {q[i] : i \in DOMAIN q}

(* ---------------------- documents as JSON objects --------------------- *)

\* A document as hasDocumentChanged sees it: the members of a JSON object in
\* the order the object holds them, each a key and a value.
FieldKeys == {"brand", "jsonPayload"}

FieldValues == {Structured, [t |-> "object", v |-> 2]}

Fields == [k : FieldKeys, v : FieldValues]

Documents ==
  {<<>>} \cup {<<f>> : f \in Fields}
         \cup {d \in {<<f, g>> : f \in Fields, g \in Fields} : d[1].k # d[2].k}

\* JSON.stringify(doc): the text lists the members in the object's key order.
JSONstringify(doc) == [i \in DOMAIN doc |-> <<doc[i].k, doc[i].v>>]

\* The document of the pipeline, its payload under the key jsonPayload.
AsDocument(p) == <<[k |-> "jsonPayload", v |-> p]>>

\* What `await targetClient.get({ index, id })` does: it answers with the
\* stored document under body._source, it answers with no body or no
\* body._source (the shape of a client whose answer is the body itself), or it
\* throws: a 404, or any other error.
GetOutcomes ==
  [status : {"found"}, source : Documents]
    \cup {[status |-> "noBody", source |-> <<>>],
          [status |-> "notFound", source |-> <<>>],
          [status |-> "error", source |-> <<>>]}

(* ------------------------------- state -------------------------------- *)

VARIABLES
  variant,      \* which of the three programs runs
  source,       \* the source index: a sequence of payloads, identifier = position
  indexExists,  \* whether the target index exists
  target,       \* the target index: identifier -> stored payload, or Absent
  sched,        \* the scheduler loop: "await" a pass, "wait" the interval,
                \* "exited" (the loop was left), "crashed" (the process died)
  timers,       \* pending setTimeout restarts of the restart variant
  pass,         \* slot -> the local variables of the pass running there
  probe         \* a call of hasDocumentChanged on its own: its inputs and answer

vars == <<variant, source, indexExists, target, sched, timers, pass, probe>>

\* No call of hasDocumentChanged on its own.
NoProbe ==
  [pc |-> "none", response |-> [status |-> "notFound", source |-> <<>>],
   newData |-> <<>>, answer |-> FALSE]

\* Nothing logged yet by the batch loop of the differential variant.
NoLog == [processedDocs |-> 0, updatedDocs |-> 0, skippedDocs |-> 0, failedDocs |-> 0]

\* No pass in the slot.
Idle ==
  [pc |-> "idle", result |-> "none", documents |-> <<>>, operations |-> <<>>,
   cursor |-> 0, scroll |-> "none", closeCalls |-> 0,
   processedDocs |-> 0, failedDocs |-> 0, updatedDocs |-> 0, skippedDocs |-> 0,
   batchNumber |-> 0, retries |-> 0, delay |-> 0, waitMs |-> 0,
   bulkCalls |-> 0, exhausted |-> FALSE, batchDelay |-> 0,
   nonEmptyPages |-> 0, emptyPages |-> 0, itemErrors |-> 0, fetchFailed |-> {},
   fetchEmpty |-> {},
   index |-> 0, logged |-> NoLog]

\* The locals of syncData when it reaches its first await.
NewPass(v) ==
  [Idle EXCEPT !.pc = IF v = "differential" THEN "count" ELSE "exists",
               !.result = "running",
               !.delay = IF v = "throttled" THEN BASE_DELAY ELSE 0]

Running(p) == p.pc \notin {"idle", "ended"}

Init ==
  /\ variant \in Variants
  /\ source \in Sources
  /\ indexExists \in BOOLEAN
  /\ target = [d \in DocIds |-> Absent]
  /\ sched = "await"
  /\ timers = 0
  /\ pass = [s \in Slots |-> IF s = "main" THEN NewPass(variant) ELSE Idle]
  /\ probe = NoProbe

\* syncData settled: its locals, the counters among them, are gone.  How it
\* ended, what it did to its cursor and, when a batch had exhausted its
\* retries, the attempts made and the failed count stay observable until the
\* slot is used again.
Ended(p, how) ==
  [Idle EXCEPT !.pc = "ended", !.result = how,
               !.scroll = p.scroll, !.closeCalls = p.closeCalls,
               !.exhausted = p.exhausted,
               !.bulkCalls = IF p.exhausted THEN p.bulkCalls ELSE 0,
               !.failedDocs = IF p.exhausted THEN p.failedDocs ELSE 0]

\* pass with slot s replaced by p.
Put(s, p) == pass' = [pass EXCEPT ![s] = p]

(* --------------------------- shared helpers --------------------------- *)

\* A bulk body whose actions carry no identifier:
\* { index: { _index: targetIndex } }.
IndexOperationsUnkeyed(src, ids) ==
  [i \in DOMAIN ids |-> [id |-> 0, doc |-> TransformKeep(src[ids[i]])]]

\* The bulk body built by flatMap: one index action per document of the page,
\* keyed by the document's identifier, a document whose payload failed to
\* parse included.
IndexOperations(src, ids) ==
  [i \in DOMAIN ids |-> [id |-> ids[i], doc |-> TransformKeep(src[ids[i]])]]

OpIds(ops) == {ops[i].id : i \in DOMAIN ops}

\* The target cluster applying the actions of a bulk body from position i on,
\* the items of E answered with an error.  An action stores its document
\* under its identifier, inserting it or replacing what is stored there; an
\* action without an identifier is stored under an identifier of the
\* cluster's choosing that is not in use.
RECURSIVE BulkApplyFrom(_, _, _, _)
BulkApplyFrom(tgt, ops, E, i) ==
  IF i > Len(ops) THEN tgt
  ELSE LET o == ops[i]
           free == {d \in DocIds : tgt[d] = Absent}
           stored == IF o.id \in E THEN tgt
                     ELSE IF o.id \in DocIds THEN [tgt EXCEPT ![o.id] = o.doc]
                     ELSE IF free = {} THEN tgt
                     ELSE [tgt EXCEPT ![CHOOSE d \in free : \A e \in free : d <= e] = o.doc]
       IN BulkApplyFrom(stored, ops, E, i + 1)

\* The target after a bulk call that answered, item errors on the documents E.
BulkApply(tgt, ops, E) == BulkApplyFrom(tgt, ops, E, 1)

\* The target after a bulk call of update actions with doc_as_upsert that
\* answered: a document the target does not hold is inserted, and the members
\* of doc are merged into one it holds.  A document of the pipeline has the
\* one member jsonPayload, a single value here, so the merge stores doc's.
BulkUpdate(tgt, ops, E) == BulkApply(tgt, ops, E)

\* bulkResponse.items.filter(item => item.index && item.index.error).length,
\* E the documents whose item carries an error.
ItemErrorCount(E) == Cardinality(E)

\* A page arrived: the extractor's page counters.  The last bulk response
\* (itemErrors: how many of its items carried an error) is gone.
Received(p, page) ==
  [p EXCEPT !.documents = page,
            !.itemErrors = 0,
            !.cursor = p.cursor + Len(page),
            !.nonEmptyPages = IF page = <<>> THEN @ ELSE @ + 1,
            !.emptyPages = IF page = <<>> THEN @ + 1 ELSE @]

(* ------------------- throttled variant: syncData ----------------------- *)

\* catch (error) { logError(...) }: the pass resolves, with the error logged.
T_Catch(p) == Ended(p, "caught")

\* A loop that runs its body before it looks at the page: do ... while.
T_LoopHeadDoWhile(p) ==
  [p EXCEPT !.pc = "bulk",
            !.operations = IndexOperations(source, p.documents),
            !.failedDocs = @ + ParseFailures(source, p.documents),
            !.retries = 0,
            !.bulkCalls = 0,
            !.batchDelay = p.delay,
            !.exhausted = FALSE]

\* The head of while (documents.length > 0), after a page arrived: either the
\* loop is left for clearScroll, or the bulk body is built and the retry loop
\* entered (success = false, retries = 0).  delay is not touched.
T_LoopHead(p) ==
  IF p.documents = <<>>
  THEN [p EXCEPT !.pc = "clearScroll"]
  ELSE [p EXCEPT !.pc = "bulk",
                 !.operations = IndexOperations(source, p.documents),
                 !.failedDocs = @ + ParseFailures(source, p.documents),
                 !.retries = 0,
                 !.bulkCalls = 0,
                 !.batchDelay = p.delay,
                 !.exhausted = FALSE]

\* The guard of the retry loop, once success is false.
T_RetryGuard(r) == r < MAX_RETRIES

\* A backoff that shrinks below its floor.
T_NextDelayHalving(d) == d \div 2

\* A backoff that forgets its ceiling.
T_NextDelayUncapped(d) == d * 2

\* delay = Math.min(delay * 2, MAX_DELAY)
T_NextDelay(d) == Min(d * 2, MAX_DELAY)

\* The retry loop was left: processedDocs is advanced and the pacing wait
\* starts.  The block's locals (operations, retries) are dead from here on.
T_AfterBulk(p) ==
  [p EXCEPT !.pc = "pace",
            !.processedDocs = @ + Len(p.documents),
            !.waitMs = p.delay,
            !.operations = <<>>,
            !.retries = 0,
            !.bulkCalls = IF p.exhausted THEN @ ELSE 0]

\* await targetClient.indices.exists
T_Exists(s) ==
  /\ variant = "throttled" /\ pass[s].pc = "exists"
  /\ \/ Put(s, [pass[s] EXCEPT !.pc = IF indexExists THEN "count" ELSE "getMapping"])
     \/ Put(s, T_Catch(pass[s]))
  /\ UNCHANGED <<probe, variant, source, indexExists, target, sched, timers>>

\* await sourceClient.indices.getMapping, and the check of its body
T_GetMapping(s) ==
  /\ variant = "throttled" /\ pass[s].pc = "getMapping"
  /\ \/ Put(s, [pass[s] EXCEPT !.pc = "create"])
     \/ Put(s, T_Catch(pass[s]))
  /\ UNCHANGED <<probe, variant, source, indexExists, target, sched, timers>>

\* await targetClient.indices.create
T_Create(s) ==
  /\ variant = "throttled" /\ pass[s].pc = "create"
  /\ \/ /\ ~indexExists
        /\ indexExists' = TRUE
        /\ Put(s, [pass[s] EXCEPT !.pc = "count"])
     \/ /\ UNCHANGED indexExists
        /\ Put(s, T_Catch(pass[s]))
  /\ UNCHANGED <<probe, variant, source, target, sched, timers>>

\* await sourceClient.count, and the check of its body
T_Count(s) ==
  /\ variant = "throttled" /\ pass[s].pc = "count"
  /\ \/ Put(s, [pass[s] EXCEPT !.pc = "search"])
     \/ Put(s, T_Catch(pass[s]))
  /\ UNCHANGED <<probe, variant, source, indexExists, target, sched, timers>>

\* await sourceClient.search: the cursor is opened and the first page arrives
T_Search(s) ==
  /\ variant = "throttled" /\ pass[s].pc = "search"
  /\ \/ Put(s, T_LoopHead(Received([pass[s] EXCEPT !.scroll = "open"], Page(source, 0))))
     \/ Put(s, T_Catch(pass[s]))
  /\ UNCHANGED <<probe, variant, source, indexExists, target, sched, timers>>

\* await targetClient.bulk: it answers, with item errors on E, or it throws
T_Bulk(s) ==
  /\ variant = "throttled" /\ pass[s].pc = "bulk"
  /\ \/ \E E \in SUBSET OpIds(pass[s].operations) :
          /\ target' = BulkApply(target, pass[s].operations, E)
          /\ Put(s, T_AfterBulk([pass[s] EXCEPT !.failedDocs = @ + ItemErrorCount(E),
                                                !.itemErrors = Cardinality(E),
                                                !.bulkCalls = @ + 1]))
     \/ /\ UNCHANGED target
        /\ Put(s, [pass[s] EXCEPT !.pc = "retryWait",
                                  !.retries = @ + 1,
                                  !.bulkCalls = @ + 1,
                                  !.waitMs = pass[s].delay])
  /\ UNCHANGED <<probe, variant, source, indexExists, sched, timers>>

\* The retry wait elapsed: delay is doubled and the loop guard read again.
T_RetryWait(s) ==
  /\ variant = "throttled" /\ pass[s].pc = "retryWait"
  /\ LET p == [pass[s] EXCEPT !.delay = T_NextDelay(@)]
     IN Put(s, IF T_RetryGuard(p.retries)
               THEN [p EXCEPT !.pc = "bulk"]
               ELSE T_AfterBulk([p EXCEPT !.exhausted = TRUE]))
  /\ UNCHANGED <<probe, variant, source, indexExists, target, sched, timers>>

\* The pacing wait elapsed: the next page is asked for.
T_Pace(s) ==
  /\ variant = "throttled" /\ pass[s].pc = "pace"
  /\ Put(s, [pass[s] EXCEPT !.pc = "scroll", !.waitMs = 0, !.itemErrors = 0])
  /\ UNCHANGED <<probe, variant, source, indexExists, target, sched, timers>>

\* await sourceClient.scroll
T_Scroll(s) ==
  /\ variant = "throttled" /\ pass[s].pc = "scroll"
  /\ \/ Put(s, T_LoopHead(Received(pass[s], Page(source, pass[s].cursor))))
     \/ Put(s, T_Catch(pass[s]))
  /\ UNCHANGED <<probe, variant, source, indexExists, target, sched, timers>>

\* await sourceClient.clearScroll, outside any try of its own
T_ClearScroll(s) ==
  /\ variant = "throttled" /\ pass[s].pc = "clearScroll"
  /\ \/ Put(s, Ended([pass[s] EXCEPT !.scroll = "closed", !.closeCalls = @ + 1],
                      "completed"))
     \/ Put(s, T_Catch([pass[s] EXCEPT !.closeCalls = @ + 1]))
  /\ UNCHANGED <<probe, variant, source, indexExists, target, sched, timers>>

(* --------------------- throttled variant: main ------------------------- *)

\* await syncData(...) resolved: the two hour wait starts.
T_MainResume ==
  /\ variant = "throttled" /\ sched = "await" /\ pass["main"].pc = "ended"
  /\ sched' = "wait"
  /\ Put("main", Idle)
  /\ UNCHANGED <<probe, variant, source, indexExists, target, timers>>

\* The two hours elapsed: the loop calls syncData again.
T_MainWait ==
  /\ variant = "throttled" /\ sched = "wait"
  /\ sched' = "await"
  /\ Put("main", NewPass(variant))
  /\ UNCHANGED <<probe, variant, source, indexExists, target, timers>>

T_Next ==
  \/ \E s \in Slots : \/ T_Exists(s) \/ T_GetMapping(s) \/ T_Create(s) \/ T_Count(s)
                      \/ T_Search(s) \/ T_Bulk(s) \/ T_RetryWait(s) \/ T_Pace(s)
                      \/ T_Scroll(s) \/ T_ClearScroll(s)
  \/ T_MainResume
  \/ T_MainWait

(* -------------------- restart variant: syncData ------------------------ *)

\* catch (error) { logError(...); throw error }: the pass rejects.
R_Throw(p) == Ended(p, "rejected")

\* The head of while (documents.length > 0), after a page arrived.
R_LoopHead(p) ==
  IF p.documents = <<>>
  THEN [p EXCEPT !.pc = "clearScroll"]
  ELSE [p EXCEPT !.pc = "bulk",
                 !.processedDocs = @ + Len(p.documents),
                 !.operations = IndexOperations(source, p.documents),
                 !.failedDocs = @ + ParseFailures(source, p.documents),
                 !.retries = RESTART_RETRIES,
                 !.bulkCalls = 0,
                 !.exhausted = FALSE]

\* if (retries === 0): the batch is given up.
R_GiveUp(r) == r = 0

\* The wait before the next attempt, (3 - retries) * 1000.
R_RetryDelay(r) == (RESTART_RETRIES - r) * RESTART_WAIT_UNIT

\* await targetClient.indices.exists
R_Exists(s) ==
  /\ variant = "restart" /\ pass[s].pc = "exists"
  /\ \/ Put(s, [pass[s] EXCEPT !.pc = IF indexExists THEN "count" ELSE "getMapping"])
     \/ Put(s, R_Throw(pass[s]))
  /\ UNCHANGED <<probe, variant, source, indexExists, target, sched, timers>>

\* await sourceClient.indices.getMapping, the check of its body and the
\* edits of the mapping
R_GetMapping(s) ==
  /\ variant = "restart" /\ pass[s].pc = "getMapping"
  /\ \/ Put(s, [pass[s] EXCEPT !.pc = "create"])
     \/ Put(s, R_Throw(pass[s]))
  /\ UNCHANGED <<probe, variant, source, indexExists, target, sched, timers>>

\* await targetClient.indices.create: it fails on an index that exists
R_Create(s) ==
  /\ variant = "restart" /\ pass[s].pc = "create"
  /\ \/ /\ ~indexExists
        /\ indexExists' = TRUE
        /\ Put(s, [pass[s] EXCEPT !.pc = "count"])
     \/ /\ UNCHANGED indexExists
        /\ Put(s, R_Throw(pass[s]))
  /\ UNCHANGED <<probe, variant, source, target, sched, timers>>

\* await sourceClient.count, and the check of its body
R_Count(s) ==
  /\ variant = "restart" /\ pass[s].pc = "count"
  /\ \/ Put(s, [pass[s] EXCEPT !.pc = "search"])
     \/ Put(s, R_Throw(pass[s]))
  /\ UNCHANGED <<probe, variant, source, indexExists, target, sched, timers>>

\* await sourceClient.search: the cursor is opened and the first page arrives
R_Search(s) ==
  /\ variant = "restart" /\ pass[s].pc = "search"
  /\ \/ Put(s, R_LoopHead(Received([pass[s] EXCEPT !.scroll = "open"], Page(source, 0))))
     \/ Put(s, R_Throw(pass[s]))
  /\ UNCHANGED <<probe, variant, source, indexExists, target, sched, timers>>

\* await targetClient.bulk: it answers, with item errors on E, or it throws
R_Bulk(s) ==
  /\ variant = "restart" /\ pass[s].pc = "bulk"
  /\ \/ \E E \in SUBSET OpIds(pass[s].operations) :
          /\ target' = BulkApply(target, pass[s].operations, E)
          /\ Put(s, [pass[s] EXCEPT !.pc = "scroll",
                                    !.failedDocs = @ + ItemErrorCount(E),
                                    !.itemErrors = Cardinality(E),
                                    !.operations = <<>>,
                                    !.retries = 0,
                                    !.waitMs = 0,
                                    !.bulkCalls = 0])
     \/ /\ UNCHANGED target
        /\ LET p == [pass[s] EXCEPT !.retries = @ - 1, !.bulkCalls = @ + 1]
           IN Put(s, IF R_GiveUp(p.retries)
                     THEN R_Throw([p EXCEPT !.failedDocs = @ + Len(p.documents),
                                            !.exhausted = TRUE])
                     ELSE [p EXCEPT !.pc = "retryWait",
                                    !.waitMs = R_RetryDelay(p.retries)])
  /\ UNCHANGED <<probe, variant, source, indexExists, sched, timers>>

\* The retry wait elapsed: while (retries > 0) goes round.
R_RetryWait(s) ==
  /\ variant = "restart" /\ pass[s].pc = "retryWait"
  /\ Put(s, [pass[s] EXCEPT !.pc = "bulk"])
  /\ UNCHANGED <<probe, variant, source, indexExists, target, sched, timers>>

\* await sourceClient.scroll, and the check of its body
R_Scroll(s) ==
  /\ variant = "restart" /\ pass[s].pc = "scroll"
  /\ \/ Put(s, R_LoopHead(Received(pass[s], Page(source, pass[s].cursor))))
     \/ Put(s, R_Throw(pass[s]))
  /\ UNCHANGED <<probe, variant, source, indexExists, target, sched, timers>>

\* setTimeout(() => syncData(...), 5000) at the end of a pass.
R_ScheduleRestart(n) == Min(n + 1, MaxTimers)

\* await sourceClient.clearScroll in a try of its own, then the end of the
\* pass: the metrics are logged and the restart timer is set.
R_ClearScroll(s) ==
  /\ variant = "restart" /\ pass[s].pc = "clearScroll"
  /\ \/ Put(s, Ended([pass[s] EXCEPT !.scroll = "closed", !.closeCalls = @ + 1],
                      "completed"))
     \/ Put(s, Ended([pass[s] EXCEPT !.closeCalls = @ + 1], "completed"))
  /\ timers' = R_ScheduleRestart(timers)
  /\ UNCHANGED <<probe, variant, source, indexExists, target, sched>>

(* ---------------------- restart variant: main -------------------------- *)

\* await syncData(...) settled, a rejection caught: the 5 s wait starts.
R_MainResume ==
  /\ variant = "restart" /\ sched = "await" /\ pass["main"].pc = "ended"
  /\ sched' = "wait"
  /\ Put("main", Idle)
  /\ UNCHANGED <<probe, variant, source, indexExists, target, timers>>

\* The 5 s elapsed: the loop calls syncData again.
R_MainWait ==
  /\ variant = "restart" /\ sched = "wait"
  /\ sched' = "await"
  /\ Put("main", NewPass(variant))
  /\ UNCHANGED <<probe, variant, source, indexExists, target, timers>>

\* The passes started by timers that have not settled.
R_TimerPasses == {t \in TimerSlots : pass[t].pc # "idle"}

\* A restart timer fires: syncData is called from the timer callback,
\* whatever other passes are running.
R_TimerFires ==
  /\ variant = "restart" /\ sched \in {"await", "wait"}
  /\ timers > 0
  /\ Cardinality(R_TimerPasses) < MaxTimerPasses
  /\ timers' = timers - 1
  /\ Put(CHOOSE t \in TimerSlots : pass[t].pc = "idle", NewPass(variant))
  /\ UNCHANGED <<probe, variant, source, indexExists, target, sched>>

\* The pass a timer started settled.  Nothing awaits it: a rejection is an
\* unhandled rejection, which the runtime either only reports or ends the
\* process on.
R_TimerSettled ==
  /\ variant = "restart"
  /\ \E t \in TimerSlots :
       /\ pass[t].pc = "ended"
       /\ \/ /\ Put(t, Idle)
             /\ UNCHANGED <<sched, timers>>
          \/ /\ pass[t].result = "rejected"
             /\ sched' = "crashed"
             /\ timers' = 0
             /\ pass' = [s \in Slots |-> Idle]
  /\ UNCHANGED <<probe, variant, source, indexExists, target>>

R_Next ==
  \/ \E s \in Slots : \/ R_Exists(s) \/ R_GetMapping(s) \/ R_Create(s) \/ R_Count(s)
                      \/ R_Search(s) \/ R_Bulk(s) \/ R_RetryWait(s)
                      \/ R_Scroll(s) \/ R_ClearScroll(s)
  \/ R_MainResume
  \/ R_MainWait
  \/ R_TimerFires
  \/ R_TimerSettled

(* ------------------ differential variant: syncData -------------------- *)

\* catch (error) { logError(...) } inside while (true): the pass is over and
\* the loop goes on to its one minute wait.
D_Catch(p) == Ended(p, "caught")

\* How a call of targetClient.get goes: the client answers in the shape
\* hasDocumentChanged reads ("document"), it answers in another shape
\* ("noBody"), or the call fails with an error other than a 404 ("error").
GetAnswers == {"document", "noBody", "error"}

\* targetClient.get for document docId of the target tgt.
Get(tgt, docId, answer) ==
  IF answer = "error" THEN [status |-> "error", source |-> <<>>]
  ELSE IF answer = "noBody" THEN [status |-> "noBody", source |-> <<>>]
  ELSE IF tgt[docId] = Absent THEN [status |-> "notFound", source |-> <<>>]
  ELSE [status |-> "found", source |-> AsDocument(tgt[docId])]

\* hasDocumentChanged(index, docId, newData), response the outcome of its
\* targetClient.get: a stored document answers whether its JSON text differs
\* from the candidate's, an answer without body._source answers true, a
\* missing document (404) answers true, and any other error is logged and
\* answers true.
hasDocumentChanged(response, newData) ==
  IF response.status = "found"
  THEN JSONstringify(response.source) # JSONstringify(newData)
  ELSE TRUE

\* Whether the for loop reaches hasDocumentChanged for document d: a payload
\* that does not parse is counted failed and skipped with `continue`.
D_Parses(d) == ~(IsPayloadText(source[d]) /\ ParseThrows(source[d]))

\* A change check that calls every document changed.
D_NeedsUpdateAlways(tgt, d, answer) == TRUE

\* needsUpdate for document d, answer how its targetClient.get goes.
D_NeedsUpdate(tgt, d, answer) ==
  hasDocumentChanged(Get(tgt, d, answer), AsDocument(TransformKeep(source[d])))

\* The counters of the batch loop are kept for its first MaxBatches
\* iterations; the loop itself runs on.
D_Counted(p) == p.batchNumber <= MaxBatches

\* batchNumber++, exact up to MaxBatches; from there on it alternates between
\* the two values above, so that every turn of the loop stays a step.
D_NextBatchNumber(n) == IF n < MaxBatches + 2 THEN n + 1 ELSE MaxBatches + 1

\* The top of a turn of while (documents.length > 0): batchNumber++,
\* processedDocs += documents.length, const operations = [].  What the last
\* turn left behind (the fetches that failed) is gone.
D_TurnStart(p) ==
  LET n == D_NextBatchNumber(p.batchNumber)
  IN [p EXCEPT !.batchNumber = n,
               !.processedDocs = IF n <= MaxBatches THEN @ + Len(p.documents) ELSE @,
               !.operations = <<>>,
               !.fetchFailed = {},
               !.fetchEmpty = {},
               !.index = 0]

\* The end of a turn: logInfo(`Batch #... completed. Processed: ..., Updated:
\* ..., Skipped: ..., Failed: ...`), the counters as the turn leaves them.
D_TurnEnd(p) ==
  [p EXCEPT !.logged = [processedDocs |-> p.processedDocs, updatedDocs |-> p.updatedDocs,
                        skippedDocs |-> p.skippedDocs, failedDocs |-> p.failedDocs]]

\* The code from position i of the for loop to its next await.  A payload
\* that does not parse is counted and passed over; the first document that
\* parses has its stored copy fetched (pc "get").  At the end of the page the
\* bulk call is awaited when there is something to send; when there is
\* nothing, the loop goes round at once with the same page, documents not
\* being assigned in the loop.  A page none of whose documents parses has no
\* await at all: the loop spins, one turn a step (pc "detect").
RECURSIVE D_ForLoop(_, _)
D_ForLoop(p, i) ==
  IF i > Len(p.documents)
  THEN IF p.operations # <<>>
       THEN [p EXCEPT !.pc = "bulk", !.index = 0]
       ELSE IF \A d \in Range(p.documents) : ~D_Parses(d)
            THEN [D_TurnEnd(p) EXCEPT !.pc = "detect", !.index = 0]
            ELSE D_ForLoop(D_TurnStart(D_TurnEnd(p)), 1)
  ELSE IF ~D_Parses(p.documents[i])
       THEN D_ForLoop([p EXCEPT !.failedDocs = IF D_Counted(p) THEN @ + 1 ELSE @], i + 1)
       ELSE [p EXCEPT !.pc = "get", !.index = i]

\* A turn of the batch loop, from its top to its first await.
D_LoopHead(p) == D_ForLoop(D_TurnStart(p), 1)

\* await sourceClient.count, the check of its body and of a count of zero
D_Count(s) ==
  /\ variant = "differential" /\ pass[s].pc = "count"
  /\ \/ /\ Len(source) # 0
        /\ Put(s, [pass[s] EXCEPT !.pc = "countBefore"])
        /\ UNCHANGED sched
     \/ /\ Len(source) = 0
        /\ Put(s, Ended(pass[s], "returned"))
        /\ sched' = "exited"
     \/ /\ Put(s, D_Catch(pass[s]))
        /\ UNCHANGED sched
  /\ UNCHANGED <<probe, variant, source, indexExists, target, timers>>

\* await getElasticsearchDocCount(targetIndex): it never throws, and its
\* answer is only logged.
D_CountBefore(s) ==
  /\ variant = "differential" /\ pass[s].pc = "countBefore"
  /\ Put(s, [pass[s] EXCEPT !.pc = "search"])
  /\ UNCHANGED <<probe, variant, source, indexExists, target, sched, timers>>

\* await sourceClient.search: the cursor is opened and the first page
\* arrives, the first documents of the source or, the source emptied since it
\* was counted, no document.  An empty first page skips the loop, and the
\* final count of the target is asked for.
D_Search(s) ==
  /\ variant = "differential" /\ pass[s].pc = "search"
  /\ \/ \E page \in {Page(source, 0), <<>>} :
          LET p == Received([pass[s] EXCEPT !.scroll = "open"], page)
          IN Put(s, IF p.documents = <<>>
                    THEN [p EXCEPT !.pc = "countAfter"]
                    ELSE D_LoopHead(p))
     \/ Put(s, D_Catch(pass[s]))
  /\ UNCHANGED <<probe, variant, source, indexExists, target, sched, timers>>

\* await getElasticsearchDocCount(targetIndex) behind the batch loop: it never
\* throws; its answer and the metrics are logged and the pass is over.
D_CountAfter(s) ==
  /\ variant = "differential" /\ pass[s].pc = "countAfter"
  /\ Put(s, Ended(pass[s], "completed"))
  /\ UNCHANGED <<probe, variant, source, indexExists, target, sched, timers>>

\* A turn of the batch loop over a page none of whose documents parses: the
\* counters and the for loop, with no await in them.
D_Detect(s) ==
  /\ variant = "differential" /\ pass[s].pc = "detect"
  /\ Put(s, D_LoopHead(pass[s]))
  /\ UNCHANGED <<probe, variant, source, indexExists, target, sched, timers>>

\* await hasDocumentChanged(targetIndex, doc._id, source), that is its await
\* of targetClient.get, for the document at position index of the page: the
\* fetch answers, with the stored document or without one (kept in
\* fetchEmpty), or fails (a failure is logged, and kept in fetchFailed), both
\* until the turn is over.  An unchanged document is counted skipped, a
\* changed one joins the operations; then the for loop goes on.  The answer
\* of the last bulk call (itemErrors, exhausted) is gone.
D_Get(s) ==
  /\ variant = "differential" /\ pass[s].pc = "get"
  /\ \E answer \in GetAnswers :
       LET p == pass[s]
           d == p.documents[p.index]
           needsUpdate == D_NeedsUpdate(target, d, answer)
           q == [p EXCEPT !.fetchFailed = IF answer = "error" THEN @ \cup {d} ELSE @,
                          !.fetchEmpty = IF answer = "noBody" THEN @ \cup {d} ELSE @,
                          !.exhausted = FALSE,
                          !.itemErrors = 0,
                          !.skippedDocs = IF ~needsUpdate /\ D_Counted(p) THEN @ + 1 ELSE @,
                          !.operations = IF needsUpdate
                                         THEN Append(@, [id |-> d,
                                                         doc |-> TransformKeep(source[d])])
                                         ELSE @]
       IN Put(s, D_ForLoop(q, p.index + 1))
  /\ UNCHANGED <<probe, variant, source, indexExists, target, sched, timers>>

\* await targetClient.bulk: it answers, with item errors on E, or it throws;
\* either way the loop goes round with the same page.
D_Bulk(s) ==
  /\ variant = "differential" /\ pass[s].pc = "bulk"
  /\ \/ \E E \in SUBSET OpIds(pass[s].operations) :
          LET p == pass[s]
              n == Len(p.operations)
          IN /\ target' = BulkUpdate(target, p.operations, E)
             /\ indexExists' = (indexExists \/ Cardinality(E) < n)
             /\ Put(s, D_LoopHead(D_TurnEnd(
                         [p EXCEPT !.itemErrors = Cardinality(E),
                                   !.failedDocs = IF D_Counted(p) THEN @ + Cardinality(E) ELSE @,
                                   !.updatedDocs = IF D_Counted(p) THEN @ + n - Cardinality(E) ELSE @])))
     \/ /\ UNCHANGED <<target, indexExists>>
        /\ Put(s, D_LoopHead(D_TurnEnd(
                    [pass[s] EXCEPT !.exhausted = TRUE,
                                    !.failedDocs = IF D_Counted(pass[s])
                                                   THEN @ + Len(pass[s].operations) ELSE @])))
  /\ UNCHANGED <<probe, variant, source, sched, timers>>

\* A pass of while (true) ended, completed or with its error caught: the one
\* minute wait starts.
D_Restart ==
  /\ variant = "differential" /\ sched = "await" /\ pass["main"].pc = "ended"
  /\ sched' = "wait"
  /\ Put("main", Idle)
  /\ UNCHANGED <<probe, variant, source, indexExists, target, timers>>

\* The minute elapsed: while (true) goes round.
D_Wait ==
  /\ variant = "differential" /\ sched = "wait"
  /\ sched' = "await"
  /\ Put("main", NewPass(variant))
  /\ UNCHANGED <<probe, variant, source, indexExists, target, timers>>

D_Next ==
  \/ \E s \in Slots : \/ D_Count(s) \/ D_CountBefore(s) \/ D_Search(s)
                      \/ D_Detect(s) \/ D_Get(s) \/ D_Bulk(s) \/ D_CountAfter(s)
  \/ D_Restart
  \/ D_Wait

Next == T_Next \/ R_Next \/ D_Next

Spec == Init /\ [][Next]_vars

\* The differential program alone, every continuation that is ready run in
\* the end: the collaborators always answer and the timers always fire.
InitDifferential == Init /\ variant = "differential"

FairSpecDifferential ==
  InitDifferential /\ [][D_Next]_vars /\ WF_vars(D_Next)

\* The differential program alone, with no assumption on its scheduling.
SpecDifferential == InitDifferential /\ [][D_Next]_vars

\* The throttled program alone.
InitThrottled == Init /\ variant = "throttled"

SpecThrottled == InitThrottled /\ [][T_Next]_vars

(* ------------------- hasDocumentChanged on its own -------------------- *)

\* A call of hasDocumentChanged with any outcome of its fetch and any
\* candidate; no pass runs.
InitDetector ==
  /\ variant = "differential"
  /\ source = <<>>
  /\ indexExists = TRUE
  /\ target = [d \in DocIds |-> Absent]
  /\ sched = "wait"
  /\ timers = 0
  /\ pass = [s \in Slots |-> Idle]
  /\ probe \in [pc : {"called"}, response : GetOutcomes, newData : Documents,
                answer : {FALSE}]

\* The call returns.
Detector_Return ==
  /\ probe.pc = "called"
  /\ probe' = [probe EXCEPT !.pc = "returned",
                            !.answer = hasDocumentChanged(probe.response, probe.newData)]
  /\ UNCHANGED <<variant, source, indexExists, target, sched, timers, pass>>

SpecDetector == InitDetector /\ [][Detector_Return]_vars

(* ------------------------------- claims -------------------------------- *)

\* The retry ceiling of the variant that runs.
MaxRetriesOf(v) == IF v = "throttled" THEN MAX_RETRIES ELSE RESTART_RETRIES

\* The step in which the pass of slot s gives a batch up: every attempt of
\* its bulk call has thrown.
Exhausts(s) == ~pass[s].exhausted /\ pass'[s].exhausted

\* The counters of a pass as a turn of its batch loop left them: in the
\* differential variant, whose next turn starts counting before the pass
\* yields, the counters it logged at the end of the turn.
Counters(p) == IF variant = "differential" THEN p.logged ELSE p

\* ceil(t / p)
CeilDiv(t, p) == (t + p - 1) \div p

\* C1: Passes are serialized: at no time are two passes in progress at once.
C1_PassesSerialized ==
  Cardinality({s \in Slots : Running(pass[s])}) <= 1

\* The retry ceiling is kept in slot s: a batch sees at most maxRetries bulk
\* attempts (5 in the throttled variant, 3 in the restart variant), a bulk
\* attempt is pending only while fewer than maxRetries have been made, and a
\* batch is given up exactly when maxRetries attempts have thrown, after
\* which no attempt is pending for it.
RetryCeilingKept(s) ==
  LET p == pass[s]
      m == MaxRetriesOf(variant)
  IN /\ p.bulkCalls <= m
     /\ p.pc = "bulk" => p.bulkCalls < m
     /\ p.pc = "retryWait" => p.bulkCalls = (IF variant = "throttled"
                                             THEN p.retries
                                             ELSE RESTART_RETRIES - p.retries)
     /\ p.exhausted => p.bulkCalls = m /\ p.pc \notin {"bulk", "retryWait"}

\* C2: Retry ceiling: after exactly maxRetries consecutive transport failures
\* of the bulk call for one batch (5 in the throttled variant, 3 in the
\* restart variant) no further attempt is made for the batch, and the batch
\* is reported failed: in the step that gives it up its failure is counted or
\* thrown to the caller.
C2_RetryCeilingReported ==
  [][\A s \in Slots :
       variant \in {"throttled", "restart"} =>
         /\ RetryCeilingKept(s)
         /\ Exhausts(s) =>
              \/ pass'[s].failedDocs > pass[s].failedDocs
              \/ pass'[s].result = "rejected"]_vars

\* C3 as claimed: after k consecutive transport failures on a batch the wait
\* before attempt k+1 is min(BASE_DELAY * 2^k, MAX_DELAY).
C3_BackoffAsClaimed ==
  \A s \in Slots :
    (variant = "throttled" /\ pass[s].pc = "retryWait") =>
      pass[s].waitMs = Min(BASE_DELAY * 2 ^ pass[s].retries, MAX_DELAY)

\* C3 as amended: in the throttled variant the wait after the k-th
\* consecutive transport failure on a batch is min(d0 * 2^(k-1), MAX_DELAY),
\* d0 the value of delay at the batch's first attempt (BASE_DELAY for the
\* first batch of a pass), and the wait that follows it leaves delay at
\* min(d0 * 2^k, MAX_DELAY); in the restart variant the wait after the
\* k-th failure (k < 3) is k * 1000 ms.
C3_BackoffGrowth ==
  \A s \in Slots :
    LET p == pass[s]
    IN /\ (variant = "throttled" /\ p.pc = "retryWait") =>
            /\ p.retries \in 1 .. MAX_RETRIES
            /\ p.waitMs = Min(p.batchDelay * 2 ^ (p.retries - 1), MAX_DELAY)
            /\ p.delay = p.waitMs
       /\ (variant = "throttled" /\ p.pc = "bulk") =>
            p.delay = Min(p.batchDelay * 2 ^ p.retries, MAX_DELAY)
       /\ (variant = "throttled" /\ p.nonEmptyPages = 1 /\ p.pc = "bulk" /\ p.retries = 0) =>
            p.batchDelay = BASE_DELAY
       /\ (variant = "restart" /\ p.pc = "retryWait") =>
            /\ RESTART_RETRIES - p.retries \in 1 .. RESTART_RETRIES - 1
            /\ p.waitMs = (RESTART_RETRIES - p.retries) * RESTART_WAIT_UNIT

\* C3 witness: the fourth failure of the first batch of a throttled pass,
\* where the doubling meets the ceiling.
C3_Witness ==
  /\ variant = "throttled"
  /\ pass["main"].pc = "retryWait"
  /\ pass["main"].batchDelay = BASE_DELAY
  /\ pass["main"].retries = 4
  /\ pass["main"].waitMs = MAX_DELAY

\* C4: when every bulk attempt for a batch has thrown, the failed count
\* grows by the number of documents of the batch.
C4_ExhaustedBatchCounted ==
  [][\A s \in Slots :
       (Exhausts(s) /\ (variant = "differential" => D_Counted(pass[s]))) =>
         Counters(pass'[s]).failedDocs = pass[s].failedDocs + Len(pass[s].operations)]_vars

\* C5: a batch whose bulk write exhausts its retries does not abort the
\* pass: the pass is still running after the step that gives the batch up.
C5_ExhaustionDoesNotAbort ==
  [][\A s \in Slots : Exhausts(s) => Running(pass'[s])]_vars

\* C6: a pass that opened a cursor has called clearScroll exactly once when
\* it ends, and a pass whose clearScroll failed still ends completed.
C6_CursorReleasedOnce ==
  \A s \in Slots :
    (pass[s].pc = "ended" /\ pass[s].scroll # "none") =>
      /\ pass[s].closeCalls = 1
      /\ pass[s].scroll = "open" => pass[s].result = "completed"

\* C7: a pass never counts more processed documents than the source holds
\* nor receives more than ceil(T/P) non-empty pages or more than one empty
\* page, and when its batch loop is left it has received ceil(T/P) non-empty
\* pages and one empty page and processedDocs equals T.
C7_PaginationExhaustion ==
  \A s \in Slots :
    LET p == pass[s]
        T == Len(source)
    IN /\ p.processedDocs <= T
       /\ p.nonEmptyPages <= CeilDiv(T, PageSize)
       /\ p.emptyPages <= 1
       /\ p.pc = "clearScroll" =>
            /\ p.nonEmptyPages = CeilDiv(T, PageSize)
            /\ p.emptyPages = 1
            /\ p.processedDocs = T

\* C8: every pass that is started ends.
C8_PassEnds ==
  \A s \in Slots : Running(pass[s]) ~> ~Running(pass[s])

\* C9: a document of the page whose payload does not parse is not part of
\* the bulk body, and with exactly one such document in a page of N the
\* unconditional bulk body holds the other N-1 documents.
C9_TransformIsolation ==
  \A s \in Slots :
    LET p == pass[s]
    IN (p.pc = "bulk" /\ ParseFailures(source, p.documents) = 1) =>
         /\ \A d \in Range(p.documents) : ~D_Parses(d) => d \notin OpIds(p.operations)
         /\ variant # "differential" => Len(p.operations) = Len(p.documents) - 1

\* C10: the scheduler never stops on its own: in every reachable state the
\* scheduler loop is awaiting a pass or waiting its interval.
C10_SchedulerAlive ==
  sched \in {"await", "wait"}

\* A pass that ended with an error: caught in syncData, or thrown out of it.
EndedInError(p) == p.pc = "ended" /\ p.result \in {"caught", "rejected"}

\* C11: an error raised inside a pass ends only that pass: after a pass has
\* ended in error the scheduler loop is still awaiting or waiting, and no
\* other pass in progress is lost.
C11_FailureIsolated ==
  [][\A s \in Slots :
       EndedInError(pass[s]) =>
         /\ sched' \in {"await", "wait"}
         /\ \A t \in Slots \ {s} : Running(pass[t]) => pass'[t].pc # "idle"]_vars

\* Where a pass counts the source, reads its cursor or writes to the target.
Streaming ==
  {"count", "countBefore", "search", "detect", "get", "bulk", "countAfter",
   "retryWait", "pace", "scroll", "clearScroll"}

\* C12: a pass counts, reads and writes only with the target index in
\* place; it gets there from the existence check that found the index or from
\* the create that made it; the mapping is fetched only after the existence
\* check found no index and the create is issued only after the mapping was
\* fetched; and a pass whose mapping fetch or create fails ends there.
C12_ProvisioningOrder ==
  [][\A s \in Slots :
       LET p == pass[s]
           q == pass'[s]
       IN /\ p.pc \in Streaming => indexExists
          /\ (p.pc = "exists" /\ Running(q)) =>
               q.pc \in {"exists", IF indexExists THEN "count" ELSE "getMapping"}
          /\ (p.pc = "getMapping" /\ Running(q)) => q.pc \in {"getMapping", "create"}
          /\ (p.pc = "create" /\ Running(q)) =>
               \/ q.pc = "create"
               \/ q.pc = "count" /\ ~indexExists /\ indexExists'
          /\ (q.pc = "getMapping" /\ p.pc # "getMapping") => p.pc = "exists"
          /\ (q.pc = "create" /\ p.pc # "create") => p.pc = "getMapping"
          /\ (q.pc \in Streaming /\ p.pc \notin Streaming) =>
               p.pc \in {"exists", "create"}]_vars

\* C13: in the variants that upsert unconditionally, applying the bulk body
\* of a batch to the target a second time leaves the target as the first
\* application left it, whichever items the target accepted.
C13_IdempotentReplay ==
  \A s \in Slots :
    (variant \in {"restart", "throttled"} /\ pass[s].pc = "bulk") =>
      \A E \in SUBSET OpIds(pass[s].operations) :
        LET once == BulkApply(target, pass[s].operations, E)
        IN BulkApply(once, pass[s].operations, E) = once

\* C13 witness: a later pass about to send a batch the target already holds.
C13_Witness ==
  /\ variant = "throttled"
  /\ pass["main"].pc = "bulk"
  /\ Len(pass["main"].operations) = PageSize
  /\ \A i \in DOMAIN pass["main"].operations :
       target[pass["main"].operations[i].id] = pass["main"].operations[i].doc

\* Deep structural equality of two documents: the same members, in any order.
StructurallyEqual(a, b) == Range(a) = Range(b)

\* C14: hasDocumentChanged answers false exactly when the fetch succeeded and
\* the stored document is structurally equal to the candidate; a missing
\* document, a differing document and a failed fetch answer true.
C14_DetectorCorrect ==
  probe.pc = "returned" =>
    (probe.answer = FALSE <=>
       /\ probe.response.status = "found"
       /\ StructurallyEqual(probe.response.source, probe.newData))

\* Inside the batch loop.
InBatchLoop == {"detect", "get", "bulk", "retryWait", "pace", "scroll"}

\* C15 as claimed: with an empty source the step that takes the count ends
\* the pass.
C15_ZeroCountEndsPass ==
  [][\A s \in Slots :
       (Len(source) = 0 /\ pass[s].pc = "count" /\ pass'[s].pc # "count") =>
         ~Running(pass'[s])]_vars

\* C15 as amended: with an empty source no pass enters the batch loop, calls
\* bulk, counts a document or writes to the target; the differential pass
\* goes no further than its count, while the restart and throttled passes
\* still open the cursor and receive one empty page.
C15_EmptySource ==
  Len(source) = 0 =>
    /\ target = [d \in DocIds |-> Absent]
    /\ \A s \in Slots :
         /\ pass[s].pc \notin InBatchLoop
         /\ pass[s].bulkCalls = 0
         /\ pass[s].processedDocs = 0
         /\ pass[s].nonEmptyPages = 0
         /\ variant = "differential" => pass[s].pc \notin {"countBefore", "search", "countAfter"}
         /\ pass[s].pc = "clearScroll" => pass[s].emptyPages = 1

\* C15 witness: a throttled pass over an empty source that received its
\* empty page and is about to release the cursor.
C15_Witness ==
  /\ Len(source) = 0
  /\ variant = "throttled"
  /\ pass["main"].pc = "clearScroll"
  /\ pass["main"].emptyPages = 1

\* The successes a pass has tallied: the differential variant counts them in
\* updatedDocs; the restart and throttled variants keep no such count.
Succeeded(p) == IF variant = "differential" THEN p.logged.updatedDocs ELSE 0

\* C16: a bulk call that answers with item errors is not tried again and its
\* batch is not given up: the pass goes on to its next page, the failed count
\* grown by the number of items that carry an error and the tally of
\* successes grown by the number of items that carry none.
C16_PartialBulkFailure ==
  [][\A s \in Slots :
       LET p == pass[s]
           q == pass'[s]
       IN (p.pc = "bulk" /\ q.itemErrors > 0) =>
            /\ q.pc \in {"pace", "scroll"}
            /\ ~q.exhausted
            /\ q.itemErrors <= Len(p.operations)
            /\ (variant = "differential" => D_Counted(p)) =>
                 /\ Counters(q).failedDocs = p.failedDocs + q.itemErrors
                 /\ Succeeded(q) = Succeeded(p) + Len(p.operations) - q.itemErrors]_vars

\* The source of the scenario: a holds decodable text, b a structure and c
\* text that does not decode.
ScenarioSource == <<JsonText, Structured, Garbled>>

\* C17: a pass over the scenario source that leaves its batch loop with the
\* metrics of the scenario, three documents processed and one failed, leaves
\* the target holding exactly a and b, their payloads structures.
C17_EndToEnd ==
  source = ScenarioSource =>
    \A s \in Slots :
      (/\ pass[s].pc = "clearScroll"
       /\ pass[s].processedDocs = 3
       /\ pass[s].failedDocs = 1) =>
        target = [d \in DocIds |-> IF d \in {1, 2} THEN JSONparse(JsonText) ELSE Absent]

\* The target is consistent with the source: every source document whose
\* payload decodes is stored under its identifier with its payload decoded.
Consistent ==
  \A d \in DOMAIN source : D_Parses(d) => target[d] = TransformKeep(source[d])

\* A step in which a collaborator fails: a call throws (the pass ends in
\* error, a bulk attempt is to be retried or its batch is given up, the
\* cursor is not released), a bulk item carries an error, the fetch of a
\* stored document fails, or the process dies.
FaultStep ==
  \/ sched' = "crashed"
  \/ \E s \in Slots :
       LET p == pass[s]
           q == pass'[s]
       IN \/ Running(p) /\ EndedInError(q)
          \/ p.pc = "bulk" /\ q.pc = "retryWait"
          \/ ~p.exhausted /\ q.exhausted
          \/ p.pc = "bulk" /\ q.itemErrors > 0
          \/ p.pc = "clearScroll" /\ q.pc = "ended" /\ q.scroll = "open"
          \/ p.pc = "get" /\ p.documents[p.index] \in q.fetchFailed

\* C18: if from some point on no collaborator fails, then from some point
\* on the target is consistent with the source, and stays so.
C18_EventuallyConsistent ==
  <>[][~FaultStep]_vars => <>[]Consistent

\* C19: in the throttled variant every batch starts its retry loop with no
\* attempt made and delay at BASE_DELAY, and the pacing wait after a batch
\* whose first attempt succeeded (delay is what it was when the batch
\* started, below the ceiling) is BASE_DELAY.
C19_RetryStatePerBatch ==
  \A s \in Slots :
    LET p == pass[s]
    IN variant = "throttled" =>
         /\ (p.pc = "bulk" /\ p.bulkCalls = 0) =>
              p.retries = 0 /\ p.delay = BASE_DELAY
         /\ (p.pc = "pace" /\ ~p.exhausted /\ p.delay = p.batchDelay
                /\ p.batchDelay # MAX_DELAY) =>
              p.waitMs = BASE_DELAY

\* C20: while a throttled pass runs, delay lies between BASE_DELAY and
\* MAX_DELAY, and so does every wait in progress, the retry wait and the
\* pacing wait, which is the value delay had when the wait began.
C20_BackoffBounds ==
  \A s \in Slots :
    LET p == pass[s]
    IN (variant = "throttled" /\ Running(p)) =>
         /\ BASE_DELAY <= p.delay /\ p.delay <= MAX_DELAY
         /\ p.pc \in {"retryWait", "pace"} =>
              /\ BASE_DELAY <= p.waitMs /\ p.waitMs <= MAX_DELAY
              /\ p.pc = "retryWait" => p.waitMs = p.delay
              /\ p.pc = "pace" => p.waitMs = p.delay

\* C20 witness: a pacing wait at the ceiling, after a batch that met
\* transport failures and then was written.
C20_Witness ==
  /\ variant = "throttled"
  /\ pass["main"].pc = "pace"
  /\ ~pass["main"].exhausted
  /\ pass["main"].delay = MAX_DELAY
  /\ pass["main"].waitMs = MAX_DELAY
  /\ pass["main"].batchDelay = BASE_DELAY

\* C21: a turn of the differential batch loop sends for its page exactly
\* the documents that decoded and were judged changed: those whose fetch
\* failed or answered without a document, those the target does not hold and
\* those it holds with another content.  Every other decoded document is
\* skipped, adding one to the skipped count each, and bulk is called only for
\* a write set that is not empty.
C21_DifferentialWriteSet ==
  [][\A s \in Slots :
       LET p == pass[s]
           q == pass'[s]
           parsed == {d \in Range(p.documents) : D_Parses(d)}
           Changed(r, d) == \/ d \in r.fetchFailed
                            \/ d \in r.fetchEmpty
                            \/ target[d] = Absent
                            \/ target[d] # TransformKeep(source[d])
       IN /\ (variant = "differential" /\ p.pc = "bulk") =>
               /\ p.operations # <<>>
               /\ OpIds(p.operations) = {d \in parsed : Changed(p, d)}
               /\ Len(p.operations) = Cardinality(OpIds(p.operations))
               /\ \A i \in DOMAIN p.operations :
                    p.operations[i].doc = TransformKeep(source[p.operations[i].id])
          /\ (variant = "differential" /\ p.pc = "get") =>
               LET d == p.documents[p.index]
                   sent == [id |-> d, doc |-> TransformKeep(source[d])]
               IN /\ d \in parsed
                  /\ Changed(q, d) =>
                       /\ q.operations = Append(p.operations, sent)
                       /\ q.skippedDocs = p.skippedDocs
                  /\ ~Changed(q, d) =>
                       /\ q.operations = p.operations
                       /\ q.skippedDocs = p.skippedDocs + (IF D_Counted(p) THEN 1 ELSE 0)]_vars

\* C21 witness: a page of two decoded documents, one already stored as it
\* is and skipped, the other sent.
C21_Witness ==
  /\ variant = "differential"
  /\ pass["main"].pc = "bulk"
  /\ Len(pass["main"].documents) = 2
  /\ Len(pass["main"].operations) = 1
  /\ pass["main"].fetchFailed = {}
  /\ pass["main"].fetchEmpty = {}
  /\ pass["main"].skippedDocs > 0
  /\ \E d \in Range(pass["main"].documents) :
       /\ d \notin OpIds(pass["main"].operations)
       /\ target[d] = TransformKeep(source[d])

\* Where a pass has counted the outcome of every batch it was given.
BatchesCounted(v) ==
  IF v = "restart" THEN {"scroll", "clearScroll"}
  ELSE IF v = "throttled" THEN {"pace", "scroll", "clearScroll"}
  ELSE {"detect", "get", "bulk"}

\* C22: once its batches are counted a pass has counted no more failed
\* documents than processed ones, and in the differential variant every
\* processed document is counted as exactly one of updated, skipped, failed.
C22_MetricsConsistent ==
  \A s \in Slots :
    LET p == pass[s]
        c == Counters(p)
    IN p.pc \in BatchesCounted(variant) =>
         /\ c.failedDocs <= c.processedDocs
         /\ variant = "differential" =>
              c.processedDocs = c.updatedDocs + c.skippedDocs + c.failedDocs

=============================================================================
